---- MODULE Spec2Model ----
(***************************************************************************)
(* State-machine model of the modal controller in                          *)
(* src/components/bottomSheetModal/BottomSheetModal.tsx.                   *)
(*                                                                         *)
(* The controller's refs and React state are the program variables.  The   *)
(* sheet engine (BottomSheet) and the host-mounting mechanism              *)
(* (useBottomSheetModalInternal / usePortal) live outside this file; they  *)
(* are modelled by the interface the controller uses: the engine takes     *)
(* fire-and-forget commands and reports, asynchronously and in order, the  *)
(* index each command settles at; the host keeps a registration per key.   *)
(***************************************************************************)
EXTENDS Integers, Sequences, FiniteSets, TLC

\* ---------------------------------------------------------------- bounds
MaxSnapPoints == 2
MaxFrames == 1
MaxReports == 2
MaxDismissCount == 1

\* ------------------------------------------------------------- variables
VARIABLES
  dismissOnPanDown,     \* prop dismissOnPanDown
  providedIndex,        \* prop index (_providedIndex)
  providedSnapPoints,   \* prop snapPoints (_providedSnapPoints)
  mount,                \* useState(false)
  isMinimized,          \* useRef(false)
  isForcedDismissed,    \* useRef(false)
  currentIndexRef,      \* useRef(-1)
  nextIndexRef,         \* useRef(-1)
  sheetRegistered,      \* host registry: key registered by mountSheet
  portalRegistered,     \* portal registry: <Portal name={key}> is rendered
  pendingFrames,        \* requestAnimationFrame callbacks of present not yet run
  reports,              \* engine change reports in flight, oldest first
  engineIndex,          \* index the engine has settled at (-1: closed or not rendered)
  op,                   \* handler run by the last step
  arg,                  \* its argument
  wasMounted,           \* mount as that step found it
  engineCmd,            \* engine command issued by the last step
  cb,                   \* caller callback invoked by the last step
  hostCall,             \* host-mechanism call made by the last step
  onDismissCount,       \* onDismiss calls since the sheet was last mounted
  c1,                   \* history: present() then dismiss() before the frame
  c2,                   \* history: minimize() then restore()
  dismissRequested,     \* history: dismiss() called while mounted, not yet torn down
  hostUnmount           \* history: onHostUnmount fired while mounted

progVars == <<mount, isMinimized, isForcedDismissed, currentIndexRef, nextIndexRef>>
propVars == <<dismissOnPanDown, providedIndex, providedSnapPoints>>
hostVars == <<sheetRegistered, portalRegistered>>
obsVars == <<op, arg, wasMounted, engineCmd, cb, hostCall, onDismissCount>>
histVars == <<c1, c2, dismissRequested, hostUnmount>>
engineVars == <<reports, engineIndex>>
vars == <<propVars, progVars, hostVars, pendingFrames, engineVars, obsVars, histVars>>

\* ----------------------------------------------------- derived variables
\* BottomSheetModal.tsx:67-70
index == IF dismissOnPanDown THEN providedIndex + 1 ELSE providedIndex

\* BottomSheetModal.tsx:71-75
snapPoints == IF dismissOnPanDown THEN <<0>> \o providedSnapPoints ELSE providedSnapPoints

\* BottomSheetModal.tsx:106
adjustedIndex_NoShift(_index) == _index

adjustedIndex(_index) == IF dismissOnPanDown THEN _index - 1 ELSE _index

\* the caller's snap points of length n
SnapPointsOfLen(n) == [k \in 1..n |-> 100 + 200 * k]

\* --------------------------------------------------------- observations
NoCmd == [cmd |-> "none", index |-> -1, animated |-> FALSE]
CloseCmd == [cmd |-> "close", index |-> -1, animated |-> FALSE]
ExpandCmd == [cmd |-> "expand", index |-> -1, animated |-> FALSE]
SnapToCmd(i, a) == [cmd |-> "snapTo", index |-> i, animated |-> a]

NoCb == [name |-> "none", index |-> -1]
OnDismissCb == [name |-> "onDismiss", index |-> -1]
OnChangeCb(i) == [name |-> "onChange", index |-> i]

\* ---------------------------------------------------------------- engine
\* index the engine settles at, and later reports, for a command
EngineTarget(c) ==
  CASE c.cmd = "close" -> -1
    [] c.cmd = "expand" -> Len(snapPoints) - 1
    [] c.cmd = "snapTo" -> c.index

\* bottomSheetRef.current?.<command>: the ref is set exactly while the
\* BottomSheet is rendered (mount); a command on a null ref does nothing
EngineCommand(c) ==
  IF mount
    THEN /\ engineCmd' = c
         /\ reports' = Append(reports, EngineTarget(c))
         /\ engineIndex' = EngineTarget(c)
    ELSE /\ engineCmd' = NoCmd
         /\ UNCHANGED engineVars

NoEngineCommand == engineCmd' = NoCmd /\ UNCHANGED engineVars

\* ------------------------------------------------------------- callbacks
\* BottomSheetModal.tsx:83-99
doDismiss_NoUnregister ==
  /\ isMinimized' = FALSE
  /\ isForcedDismissed' = FALSE
  /\ currentIndexRef' = -1
  /\ nextIndexRef' = -1
  /\ UNCHANGED sheetRegistered
  /\ portalRegistered' = FALSE
  /\ mount' = FALSE
  /\ reports' = <<>>
  /\ engineIndex' = -1
  /\ engineCmd' = NoCmd
  /\ hostCall' = "none"
  /\ cb' = OnDismissCb
  /\ onDismissCount' = onDismissCount + 1

doDismiss ==
  /\ isMinimized' = FALSE
  /\ isForcedDismissed' = FALSE
  /\ currentIndexRef' = -1
  /\ nextIndexRef' = -1
  /\ sheetRegistered' = FALSE
  /\ portalRegistered' = FALSE
  /\ mount' = FALSE
  /\ reports' = <<>>
  /\ engineIndex' = -1
  /\ engineCmd' = NoCmd
  /\ hostCall' = "unmountSheet"
  /\ cb' = OnDismissCb
  /\ onDismissCount' = onDismissCount + 1

\* BottomSheetModal.tsx:102
OnChangeIgnored_NoGuard == FALSE

OnChangeIgnored_Minimized == isMinimized

OnChangeIgnored == isMinimized /\ ~isForcedDismissed

\* BottomSheetModal.tsx:100-119; the report handled is the oldest in flight
handleOnChange(_index) ==
  IF OnChangeIgnored
    THEN /\ reports' = Tail(reports)
         /\ engineCmd' = NoCmd
         /\ cb' = NoCb
         /\ hostCall' = "none"
         /\ UNCHANGED <<progVars, hostVars, engineIndex, onDismissCount>>
    ELSE IF adjustedIndex(_index) >= 0
      THEN /\ currentIndexRef' = _index
           /\ nextIndexRef' = _index
           /\ cb' = OnChangeCb(adjustedIndex(_index))
           /\ reports' = Tail(reports)
           /\ engineCmd' = NoCmd
           /\ hostCall' = "none"
           /\ UNCHANGED <<mount, isMinimized, isForcedDismissed, hostVars, engineIndex, onDismissCount>>
      ELSE doDismiss

\* ------------------------------------------------------- public methods
\* BottomSheetModal.tsx:123-129, the call: schedules the frame callback
handlePresent ==
  /\ pendingFrames' = pendingFrames + 1
  /\ NoEngineCommand
  /\ cb' = NoCb
  /\ hostCall' = "none"
  /\ UNCHANGED <<progVars, hostVars, onDismissCount>>

\* BottomSheetModal.tsx:124-128, the frame callback; rendering the BottomSheet
\* with animateOnMount makes the engine settle at, and report, index
presentFrame ==
  /\ pendingFrames' = pendingFrames - 1
  /\ nextIndexRef' = index
  /\ mount' = TRUE
  /\ sheetRegistered' = TRUE
  /\ portalRegistered' = TRUE
  /\ hostCall' = "mountSheet"
  /\ reports' = (IF mount THEN reports ELSE <<index>>)
  /\ engineIndex' = (IF mount THEN engineIndex ELSE index)
  /\ onDismissCount' = (IF mount THEN onDismissCount ELSE 0)
  /\ engineCmd' = NoCmd
  /\ cb' = NoCb
  /\ UNCHANGED <<isMinimized, isForcedDismissed, currentIndexRef>>

\* BottomSheetModal.tsx:130-146
handleDismiss_NoShortCircuit(force) ==
  /\ isForcedDismissed' = (IF force THEN TRUE ELSE isForcedDismissed)
  /\ isMinimized' = (IF force THEN FALSE ELSE isMinimized)
  /\ hostCall' = (IF force THEN "none" ELSE "willUnmountSheet")
  /\ nextIndexRef' = -1
  /\ EngineCommand(CloseCmd)
  /\ cb' = NoCb
  /\ UNCHANGED <<mount, currentIndexRef, hostVars, onDismissCount>>

handleDismiss_KeepMinimized(force) ==
  /\ isForcedDismissed' = (IF force THEN TRUE ELSE isForcedDismissed)
  /\ isMinimized' = isMinimized
  /\ hostCall' = (IF force THEN "none" ELSE "willUnmountSheet")
  /\ nextIndexRef' = -1
  /\ EngineCommand(CloseCmd)
  /\ cb' = NoCb
  /\ UNCHANGED <<mount, currentIndexRef, hostVars, onDismissCount>>

handleDismiss(force) ==
  IF force /\ isMinimized
    THEN doDismiss
    ELSE /\ isForcedDismissed' = (IF force THEN TRUE ELSE isForcedDismissed)
         /\ isMinimized' = (IF force THEN FALSE ELSE isMinimized)
         /\ hostCall' = (IF force THEN "none" ELSE "willUnmountSheet")
         /\ nextIndexRef' = -1
         /\ EngineCommand(CloseCmd)
         /\ cb' = NoCb
         /\ UNCHANGED <<mount, currentIndexRef, hostVars, onDismissCount>>

\* a handler's early return
NoOp ==
  /\ NoEngineCommand
  /\ cb' = NoCb
  /\ hostCall' = "none"
  /\ UNCHANGED <<progVars, hostVars, onDismissCount>>

\* a visual command: sets the intended index and commands the engine
SetNextAndCommand(next, c) ==
  /\ nextIndexRef' = next
  /\ EngineCommand(c)
  /\ cb' = NoCb
  /\ hostCall' = "none"
  /\ UNCHANGED <<mount, isMinimized, isForcedDismissed, currentIndexRef, hostVars, onDismissCount>>

\* BottomSheetModal.tsx:147-153
handleClose_NoGuard == SetNextAndCommand(-1, CloseCmd)

handleClose ==
  IF isMinimized THEN NoOp ELSE SetNextAndCommand(-1, CloseCmd)

\* BottomSheetModal.tsx:154-160
handleCollapse ==
  IF isMinimized
    THEN NoOp
    ELSE LET next == IF dismissOnPanDown THEN 1 ELSE 0
         IN SetNextAndCommand(next, SnapToCmd(next, FALSE))

\* BottomSheetModal.tsx:161-167
handleExpand_Unadjusted ==
  IF isMinimized
    THEN NoOp
    ELSE SetNextAndCommand(Len(providedSnapPoints) - 1, ExpandCmd)

handleExpand ==
  IF isMinimized
    THEN NoOp
    ELSE SetNextAndCommand(Len(snapPoints) - 1, ExpandCmd)

\* BottomSheetModal.tsx:168-177
handleSnapTo_NoShift(_index) ==
  IF isMinimized
    THEN NoOp
    ELSE SetNextAndCommand(_index, SnapToCmd(_index, FALSE))

handleSnapTo(_index) ==
  IF isMinimized
    THEN NoOp
    ELSE LET next == _index + (IF dismissOnPanDown THEN 1 ELSE 0)
         IN SetNextAndCommand(next, SnapToCmd(next, FALSE))

\* ------------------------------------------------------ private methods
\* BottomSheetModal.tsx:181-186
handleMinimize ==
  IF ~isMinimized
    THEN /\ isMinimized' = TRUE
         /\ EngineCommand(CloseCmd)
         /\ cb' = NoCb
         /\ hostCall' = "none"
         /\ UNCHANGED <<mount, isForcedDismissed, currentIndexRef, nextIndexRef, hostVars, onDismissCount>>
    ELSE NoOp

\* BottomSheetModal.tsx:187-192
handleRestore ==
  IF isMinimized
    THEN /\ isMinimized' = FALSE
         /\ EngineCommand(SnapToCmd(nextIndexRef, TRUE))
         /\ cb' = NoCb
         /\ hostCall' = "none"
         /\ UNCHANGED <<mount, isForcedDismissed, currentIndexRef, nextIndexRef, hostVars, onDismissCount>>
    ELSE NoOp

\* BottomSheetModal.tsx:193-197
handleOnUnmount_Unforced ==
  IF currentIndexRef # -1 THEN handleDismiss(FALSE) ELSE NoOp

handleOnUnmount ==
  IF currentIndexRef # -1 THEN handleDismiss(TRUE) ELSE NoOp

\* ----------------------------------------------------------------- Init
EmptyState ==
  /\ ~mount
  /\ ~isMinimized
  /\ ~isForcedDismissed
  /\ currentIndexRef = -1
  /\ nextIndexRef = -1

\* BottomSheetModal.tsx:25-63: the props as destructured, state and refs as
\* constructed
Init ==
  /\ dismissOnPanDown \in BOOLEAN
  /\ providedSnapPoints \in {SnapPointsOfLen(n) : n \in 1..MaxSnapPoints}
  /\ providedIndex \in 0..(Len(providedSnapPoints) - 1)
  /\ mount = FALSE
  /\ isMinimized = FALSE
  /\ isForcedDismissed = FALSE
  /\ currentIndexRef = -1
  /\ nextIndexRef = -1
  /\ sheetRegistered = FALSE
  /\ portalRegistered = FALSE
  /\ pendingFrames = 0
  /\ reports = <<>>
  /\ engineIndex = -1
  /\ op = "init"
  /\ arg = 0
  /\ wasMounted = FALSE
  /\ engineCmd = NoCmd
  /\ cb = NoCb
  /\ hostCall = "none"
  /\ onDismissCount = 0
  /\ c1 = "idle"
  /\ c2 = "idle"
  /\ dismissRequested = FALSE
  /\ hostUnmount = "idle"

\* ------------------------------------------------------------- histories
Act(name, a) == op' = name /\ arg' = a /\ wasMounted' = mount

\* room in the engine's report queue for the report of one more command
CanIssue == mount => Len(reports) < MaxReports

\* a teardown may run only while the callback counter has room
CanDismiss == onDismissCount < MaxDismissCount

\* first index of the engine that shows the sheet open
FirstOpenIndex == IF dismissOnPanDown THEN 1 ELSE 0

\* dismiss() called on a mounted instance and that instance still mounted
DismissRequestedNext(called) == mount' /\ (dismissRequested \/ (called /\ mount))

\* onHostUnmount fired on a mounted instance: "noop" when it did nothing,
\* "acted" when it forced a dismissal still in flight, "done" in the state
\* right after the teardown of that dismissal
HostUnmountNext(fired) ==
  IF fired /\ mount
    THEN IF currentIndexRef # -1 \/ hostUnmount = "acted"
           THEN (IF mount' THEN "acted" ELSE "done")
           ELSE "noop"
    ELSE IF hostUnmount \in {"noop", "acted"}
           THEN (IF mount' THEN hostUnmount
                 ELSE IF hostUnmount = "acted" THEN "done" ELSE "idle")
           ELSE "idle"

\* ---------------------------------------------------------------- steps
Present ==
  /\ pendingFrames < MaxFrames
  /\ handlePresent
  /\ Act("present", 0)
  /\ c1' = (IF EmptyState /\ pendingFrames = 0 THEN "presented" ELSE "idle")
  /\ c2' = "idle"
  /\ dismissRequested' = DismissRequestedNext(FALSE)
  /\ hostUnmount' = HostUnmountNext(FALSE)
  /\ UNCHANGED propVars

\* the animation frame requested by present arrives
Frame ==
  /\ pendingFrames > 0
  /\ presentFrame
  /\ Act("frame", 0)
  /\ c1' = c1
  /\ c2' = c2
  /\ dismissRequested' = DismissRequestedNext(FALSE)
  /\ hostUnmount' = HostUnmountNext(FALSE)
  /\ UNCHANGED propVars

Dismiss(force) ==
  /\ CanIssue
  /\ CanDismiss
  /\ handleDismiss(force)
  /\ Act("dismiss", IF force THEN 1 ELSE 0)
  /\ c1' = (IF c1 = "presented" /\ pendingFrames > 0 /\ ~force THEN "dismissed" ELSE "idle")
  /\ c2' = "idle"
  /\ dismissRequested' = DismissRequestedNext(TRUE)
  /\ hostUnmount' = HostUnmountNext(FALSE)
  /\ UNCHANGED <<propVars, pendingFrames>>

Close ==
  /\ CanIssue
  /\ handleClose
  /\ Act("close", 0)
  /\ c1' = "idle"
  /\ c2' = "idle"
  /\ dismissRequested' = DismissRequestedNext(FALSE)
  /\ hostUnmount' = HostUnmountNext(FALSE)
  /\ UNCHANGED <<propVars, pendingFrames>>

Collapse ==
  /\ CanIssue
  /\ handleCollapse
  /\ Act("collapse", 0)
  /\ c1' = "idle"
  /\ c2' = "idle"
  /\ dismissRequested' = DismissRequestedNext(FALSE)
  /\ hostUnmount' = HostUnmountNext(FALSE)
  /\ UNCHANGED <<propVars, pendingFrames>>

Expand ==
  /\ CanIssue
  /\ handleExpand
  /\ Act("expand", 0)
  /\ c1' = "idle"
  /\ c2' = "idle"
  /\ dismissRequested' = DismissRequestedNext(FALSE)
  /\ hostUnmount' = HostUnmountNext(FALSE)
  /\ UNCHANGED <<propVars, pendingFrames>>

SnapTo(i) ==
  /\ CanIssue
  /\ handleSnapTo(i)
  /\ Act("snapTo", i)
  /\ c1' = "idle"
  /\ c2' = "idle"
  /\ dismissRequested' = DismissRequestedNext(FALSE)
  /\ hostUnmount' = HostUnmountNext(FALSE)
  /\ UNCHANGED <<propVars, pendingFrames>>

\* the minimize() .. restore() history starts on a presented sheet with no
\* close requested or in flight
C2Start ==
  /\ mount
  /\ ~isMinimized
  /\ ~isForcedDismissed
  /\ nextIndexRef >= FirstOpenIndex
  /\ \A k \in 1..Len(reports) : reports[k] >= FirstOpenIndex

Minimize ==
  /\ CanIssue
  /\ handleMinimize
  /\ Act("minimize", 0)
  /\ c1' = "idle"
  /\ c2' = (IF C2Start THEN "minimized" ELSE "idle")
  /\ dismissRequested' = DismissRequestedNext(FALSE)
  /\ hostUnmount' = HostUnmountNext(FALSE)
  /\ UNCHANGED <<propVars, pendingFrames>>

Restore ==
  /\ CanIssue
  /\ handleRestore
  /\ Act("restore", 0)
  /\ c1' = "idle"
  /\ c2' = (IF c2 = "minimized" THEN "restored" ELSE "idle")
  /\ dismissRequested' = DismissRequestedNext(FALSE)
  /\ hostUnmount' = HostUnmountNext(FALSE)
  /\ UNCHANGED <<propVars, pendingFrames>>

\* the Portal's handleOnUnmount, fired by the host on a rendered Portal
OnHostUnmount ==
  /\ mount
  /\ CanIssue
  /\ CanDismiss
  /\ handleOnUnmount
  /\ Act("onHostUnmount", 0)
  /\ c1' = "idle"
  /\ c2' = "idle"
  /\ dismissRequested' = DismissRequestedNext(FALSE)
  /\ hostUnmount' = HostUnmountNext(TRUE)
  /\ UNCHANGED <<propVars, pendingFrames>>

\* the engine delivers its oldest report to the onChange prop
EngineReport ==
  /\ mount
  /\ reports # <<>>
  /\ CanDismiss
  /\ handleOnChange(Head(reports))
  /\ Act("report", Head(reports))
  /\ c1' = c1
  /\ c2' = c2
  /\ dismissRequested' = DismissRequestedNext(FALSE)
  /\ hostUnmount' = HostUnmountNext(FALSE)
  /\ UNCHANGED <<propVars, pendingFrames>>

\* the user drags the open sheet to another snap point
EnginePan(r) ==
  /\ mount
  /\ Len(reports) < MaxReports
  /\ engineIndex >= FirstOpenIndex
  /\ r # engineIndex
  /\ UNCHANGED <<propVars, progVars, hostVars, pendingFrames, onDismissCount>>
  /\ reports' = Append(reports, r)
  /\ engineIndex' = r
  /\ Act("pan", r)
  /\ engineCmd' = NoCmd
  /\ cb' = NoCb
  /\ hostCall' = "none"
  /\ c1' = "idle"
  /\ c2' = "idle"
  /\ dismissRequested' = DismissRequestedNext(FALSE)
  /\ hostUnmount' = HostUnmountNext(FALSE)

Next ==
  \/ Present
  \/ Frame
  \/ \E force \in BOOLEAN : Dismiss(force)
  \/ Close
  \/ Collapse
  \/ Expand
  \/ \E i \in 0..(Len(providedSnapPoints) - 1) : SnapTo(i)
  \/ Minimize
  \/ Restore
  \/ OnHostUnmount
  \/ EngineReport
  \/ \E r \in 0..(Len(snapPoints) - 1) : EnginePan(r)

Spec == Init /\ [][Next]_vars

TypeOK ==
  /\ mount \in BOOLEAN
  /\ currentIndexRef \in -1..MaxSnapPoints
  /\ nextIndexRef \in -1..MaxSnapPoints
  /\ pendingFrames \in 0..MaxFrames
  /\ Len(reports) <= MaxReports
  /\ onDismissCount \in 0..MaxDismissCount

\* ---------------------------------------------------------------- claims
TornDown ==
  /\ ~mount
  /\ ~sheetRegistered
  /\ ~isMinimized
  /\ ~isForcedDismissed
  /\ currentIndexRef = -1
  /\ nextIndexRef = -1

\* the raw index whose unadjusted value is -1
ClosedRawIndex == IF dismissOnPanDown THEN 0 ELSE -1

\* C1: after present() then dismiss() before the frame callback, once the
\* callback has run and every engine report is delivered, onDismiss has been
\* invoked exactly once and the instance is in the empty state.
C1_PresentThenDismiss ==
  (c1 = "dismissed" /\ pendingFrames = 0 /\ reports = <<>>)
    => (onDismissCount = 1 /\ EmptyState)

\* C2: between minimize() and restore(), and after them, no engine report
\* invokes onDismiss or unmounts the instance, and restore() issues engine
\* snapTo(nextIndex, animated = true).
C2_MinimizeRestore ==
  c2 # "idle" =>
    /\ mount
    /\ cb # OnDismissCb
    /\ (op = "restore" => engineCmd = SnapToCmd(nextIndexRef, TRUE))

\* C3 as stated: every engine report whose unadjusted index is -1 tears the
\* instance down and invokes onDismiss once, in every state it is delivered in.
C3_Original ==
  [][(op' = "report" /\ arg' = ClosedRawIndex)
       => (TornDown' /\ cb' = OnDismissCb /\ onDismissCount' = onDismissCount + 1)]_vars

\* C3 as amended: every engine report whose unadjusted index is -1, delivered
\* while the instance is not minimized or a forced dismissal is in flight,
\* tears the instance down and invokes onDismiss once.
C3_ClosedReportTearsDown ==
  [][(op' = "report" /\ arg' = ClosedRawIndex /\ ~(isMinimized /\ ~isForcedDismissed))
       => (TornDown' /\ cb' = OnDismissCb /\ onDismissCount' = onDismissCount + 1)]_vars

C3_Witness ==
  /\ op = "report"
  /\ arg = ClosedRawIndex
  /\ wasMounted
  /\ TornDown
  /\ cb = OnDismissCb

\* C4: a dismiss() made while mounted leads to teardown once the engine has
\* delivered every report it owes.
C4_DismissTearsDown ==
  (dismissRequested /\ reports = <<>>) => ~mount

\* C5: while minimized and not force-dismissed, an engine report invokes no
\* callback and changes none of currentIndex, nextIndex and isMounted.
C5_MinimizedIgnoresReports ==
  [][(op' = "report" /\ isMinimized /\ ~isForcedDismissed)
       => (cb' = NoCb /\ UNCHANGED <<currentIndexRef, nextIndexRef, mount>>)]_vars

C5_Witness ==
  /\ op = "report"
  /\ arg >= FirstOpenIndex
  /\ isMinimized
  /\ ~isForcedDismissed
  /\ mount
  /\ currentIndexRef # arg

\* C6 as stated: onHostUnmount fired on a mounted instance, whatever its
\* currentIndex, leads to teardown once the engine has delivered every report.
C6_Original ==
  (hostUnmount \in {"noop", "acted"} /\ reports = <<>>) => ~mount

\* C6 as amended: onHostUnmount fired on a mounted instance whose currentIndex
\* is not -1 forces a dismissal that no report is ignored under and whose
\* close report is in flight until the teardown, and the teardown invokes
\* onDismiss once for that presentation.
C6_HostUnmountTearsDown ==
  /\ hostUnmount = "acted" =>
       /\ isForcedDismissed
       /\ \E k \in 1..Len(reports) : reports[k] = -1
  /\ hostUnmount = "done" =>
       /\ TornDown
       /\ cb = OnDismissCb
       /\ onDismissCount = 1

C6_Witness ==
  /\ hostUnmount = "done"
  /\ op = "report"
  /\ TornDown

\* C7: onDismiss is invoked at most once per presentation cycle and never
\* while the instance is already unmounted.
C7_OnDismissOncePerCycle ==
  cb = OnDismissCb => (wasMounted /\ onDismissCount <= 1)

\* C8: while minimized, close(), collapse(), expand() and snapTo(i) issue no
\* engine command and change no index and no flag.
C8_MinimizedVisualNoOp ==
  [][(isMinimized /\ op' \in {"close", "collapse", "expand", "snapTo"})
       => /\ engineCmd' = NoCmd
          /\ UNCHANGED <<nextIndexRef, currentIndexRef, isMinimized, isForcedDismissed, mount>>]_vars

C8_Witness ==
  /\ op \in {"close", "collapse", "expand", "snapTo"}
  /\ isMinimized
  /\ mount
  /\ nextIndexRef >= FirstOpenIndex

\* C9: snapTo(i) on a mounted, non-minimized sheet issues engine snapTo(i + 1)
\* with dismissOnPanDown and snapTo(i) without, and a non-ignored engine report
\* of that engine index invokes onChange(i).
C9_IndexRoundTrip ==
  [][\A i \in 0..MaxSnapPoints :
       LET e == IF dismissOnPanDown THEN i + 1 ELSE i
       IN /\ (op' = "snapTo" /\ arg' = i /\ mount /\ ~isMinimized)
               => (engineCmd' = SnapToCmd(e, FALSE) /\ nextIndexRef' = e)
          /\ (op' = "report" /\ arg' = e /\ ~(isMinimized /\ ~isForcedDismissed))
               => cb' = OnChangeCb(i)]_vars

C9_Witness ==
  /\ dismissOnPanDown
  /\ op = "report"
  /\ arg = 2
  /\ cb = OnChangeCb(1)

\* C10: dismiss(true) while minimized tears the instance down in the call
\* itself, invokes onDismiss once and issues no engine command.
C10_ForcedDismissMinimized ==
  [][(op' = "dismiss" /\ arg' = 1 /\ isMinimized)
       => /\ TornDown'
          /\ cb' = OnDismissCb
          /\ onDismissCount' = onDismissCount + 1
          /\ engineCmd' = NoCmd]_vars

C10_Witness ==
  /\ op = "dismiss"
  /\ arg = 1
  /\ wasMounted
  /\ TornDown
  /\ cb = OnDismissCb

\* C11: present() on a mounted sheet settled at any snap index is idempotent:
\* once its frame callback has run, the instance state and the host registry
\* are as before the call.
C11_PresentIdempotent ==
  [][(/\ op = "present"
      /\ mount
      /\ reports = <<>>
      /\ currentIndexRef >= FirstOpenIndex
      /\ nextIndexRef = currentIndexRef
      /\ op' = "frame")
       => UNCHANGED <<progVars, hostVars>>]_vars

\* C12: the host registry never holds the key of a torn-down instance: a
\* registered key means a mounted instance, and the step that unmounts also
\* unregisters.
C12_NoLeakedRegistration ==
  /\ sheetRegistered => mount
  /\ (cb = OnDismissCb /\ wasMounted) => (~mount /\ ~sheetRegistered)

C12_Witness ==
  /\ cb = OnDismissCb
  /\ wasMounted
  /\ ~mount
  /\ ~sheetRegistered
  /\ pendingFrames = 0

\* C13: right after a caller command has set nextIndex to its target on a
\* mounted sheet, an engine report of another index does not overwrite
\* nextIndex.
C13_StaleReportKeepsIntent ==
  [][(/\ op \in {"snapTo", "collapse", "expand", "close", "dismiss"}
      /\ engineCmd # NoCmd
      /\ op' = "report"
      /\ arg' # nextIndexRef)
       => nextIndexRef' = nextIndexRef]_vars

\* C14 as stated: while isForcedDismissed is true no engine report invokes
\* the caller's onChange.
C14_Original ==
  [][(op' = "report" /\ isForcedDismissed) => cb'.name # "onChange"]_vars

\* C14 as amended: while isForcedDismissed is true no engine report is
\* ignored, also while minimized: a report whose unadjusted index is >= 0
\* invokes onChange with it, and one whose unadjusted index is negative tears
\* the instance down and invokes onDismiss.
C14_ForcedReportsProcessed ==
  [][(op' = "report" /\ isForcedDismissed)
       => IF arg' >= FirstOpenIndex
            THEN cb' = OnChangeCb(arg' - FirstOpenIndex) /\ mount'
            ELSE cb' = OnDismissCb /\ TornDown']_vars

C14_Witness ==
  /\ op = "report"
  /\ isForcedDismissed
  /\ isMinimized
  /\ cb.name = "onChange"

\* C15: whenever currentIndex is -1 and no engine report is in flight, the
\* engine is not mounted and settled at an open snap position.
C15_ClosedIndexNotPresented ==
  (currentIndexRef = -1 /\ reports = <<>>)
    => ~(mount /\ engineIndex >= FirstOpenIndex)

\* C16: an unmounted instance with no present pending is in the empty state.
C16_UnmountedIsEmpty ==
  (~mount /\ pendingFrames = 0) => EmptyState

\* C17 as stated: whenever restore() issues engine snapTo(nextIndex, true),
\* nextIndex is an open index of the adjusted snap points.
C17_Original ==
  [][(op' = "restore" /\ engineCmd' # NoCmd)
       => (engineCmd' = SnapToCmd(nextIndexRef, TRUE) /\ nextIndexRef >= FirstOpenIndex)]_vars

\* C17 as amended: whenever restore() issues engine snapTo(nextIndex, true),
\* nextIndex is an open index of the adjusted snap points or the closed
\* value -1, and never the synthetic dismiss index 0.
C17_RestoreTarget ==
  [][(op' = "restore" /\ engineCmd' # NoCmd)
       => /\ engineCmd' = SnapToCmd(nextIndexRef, TRUE)
          /\ (nextIndexRef >= FirstOpenIndex \/ nextIndexRef = -1)]_vars

C17_Witness ==
  /\ op = "restore"
  /\ dismissOnPanDown
  /\ engineCmd = SnapToCmd(-1, TRUE)
  /\ nextIndexRef = -1

\* C18 as stated: isMinimized and isForcedDismissed are never both true.
C18_Original ==
  ~(isMinimized /\ isForcedDismissed)

\* C18 as amended: dismiss(true) never leaves isMinimized and
\* isForcedDismissed both true, and the two become both true only by a
\* minimize() called while isForcedDismissed is already true.
C18_ForcedClearsMinimized ==
  [][/\ (op' = "dismiss" /\ arg' = 1) => ~(isMinimized' /\ isForcedDismissed')
     /\ (~(isMinimized /\ isForcedDismissed) /\ isMinimized' /\ isForcedDismissed')
          => (op' = "minimize" /\ isForcedDismissed)]_vars

C18_Witness ==
  /\ op = "minimize"
  /\ isMinimized
  /\ isForcedDismissed
  /\ mount

\* C19: on a non-minimized sheet collapse() sets nextIndex to what snapTo(0)
\* sets and issues the same engine snapTo, and expand() sets nextIndex to what
\* snapTo(n - 1) sets, the last index of the adjusted snap points, whose
\* length is n + 1 with dismissOnPanDown and n without.
C19_CollapseExpandAdjusted ==
  [][LET n == Len(providedSnapPoints)
         shift == IF dismissOnPanDown THEN 1 ELSE 0
     IN /\ (op' = "collapse" /\ ~isMinimized)
             => /\ nextIndexRef' = 0 + shift
                /\ mount => engineCmd' = SnapToCmd(0 + shift, FALSE)
        /\ (op' = "expand" /\ ~isMinimized)
             => /\ nextIndexRef' = (n - 1) + shift
                /\ nextIndexRef' = Len(snapPoints) - 1
                /\ Len(snapPoints) = n + shift
                /\ mount => engineCmd' = ExpandCmd]_vars

C19_Witness ==
  /\ op = "expand"
  /\ dismissOnPanDown
  /\ Len(providedSnapPoints) = 2
  /\ nextIndexRef = 2
  /\ engineCmd = ExpandCmd

====
